---- MODULE Spec2Model ----
(***************************************************************************)
(* Model of src/proxy/app.py: an HTTP reverse proxy in front of an         *)
(* Ollama-compatible backend.  The state is the configuration read at      *)
(* import time, the process-wide model availability cache                  *)
(* (_models_cache, _models_cache_ts), the wall clock, the backend's set of *)
(* local models, and one record per request task holding the handler's     *)
(* position (pc), its local variables and a log of the backend calls it    *)
(* issued.  Every await of the handlers is a step boundary: between two    *)
(* awaits a coroutine runs without interleaving (one asyncio event loop).  *)
(*                                                                         *)
(* Strings of the program (model names, JSON string values) are sequences  *)
(* of one-character strings; raw body bytes are TLA+ strings; Python's     *)
(* None, where it is a JSON value, is JNull.                               *)
(***************************************************************************)
EXTENDS Integers, Sequences, FiniteSets, TLC

(* ---------------------------------------------------------------- bounds *)

\* The wall clock runs up to MaxTime seconds.
MaxTime == 4

\* The request tasks that may be in flight at the same time.
Tasks == {"t1", "t2"}

\* The values of the model query parameter are tried up to this length.
MaxLen == 3

(* --------------------------------------------------------- configuration *)

\* DEFAULT_MODEL (line 10): one model name, here the one-letter name "q".
DEFAULT_MODEL == <<"q">>

\* The values MODELS_CACHE_TTL_SEC (line 16) is configured with.
TTLValues == {0, 1}

\* The names the backend may hold.
ModelNames == {<<"a">>, DEFAULT_MODEL}

\* HTTP statuses of the backend's answers to /api/tags and /api/pull.
ApiStatuses == {200, 500}

(* ------------------------------------------------------- model selection *)

IsSpace(c) == c = " "

RECURSIVE LStrip(_)
LStrip(s) == IF s /= <<>> /\ IsSpace(Head(s)) THEN LStrip(Tail(s)) ELSE s

RECURSIVE RStrip(_)
RStrip(s) ==
    IF s /= <<>> /\ IsSpace(s[Len(s)]) THEN RStrip(SubSeq(s, 1, Len(s) - 1)) ELSE s

\* str.strip()
Strip(s) == RStrip(LStrip(s))

\* "/" in m
HasSlash(s) == \E i \in 1..Len(s) : s[i] = "/"

\* m.split("/", 1)[0]
RECURSIVE BeforeSlash(_)
BeforeSlash(s) ==
    IF s = <<>> \/ Head(s) = "/" THEN <<>> ELSE <<Head(s)>> \o BeforeSlash(Tail(s))

\* A _normalize_model that does not strip what it cut off before the "/".
NormalizeModelNoRestrip(raw) ==
    LET m == Strip(raw)
    IN  IF m = <<>> THEN <<>>
        ELSE IF HasSlash(m) THEN BeforeSlash(m)
        ELSE m

\* _normalize_model(raw)
NormalizeModel(raw) ==
    LET m == Strip(raw)
    IN  IF m = <<>> THEN <<>>
        ELSE IF HasSlash(m) THEN Strip(BeforeSlash(m))
        ELSE m

\* Query parameters and headers are maps from names to strings.
EmptyMap == [k \in {} |-> <<>>]

Has(map, k) == k \in DOMAIN map

\* dict.pop(k, None)
Pop(map, k) == [x \in (DOMAIN map) \ {k} |-> map[x]]

\* _pick_model(request)
PickModel(query) ==
    LET m_q == IF Has(query, "model") THEN query["model"] ELSE <<>>
        m   == IF m_q /= <<>> THEN NormalizeModel(m_q) ELSE <<>>
    IN  IF m /= <<>> THEN m ELSE DEFAULT_MODEL

(* ------------------------------------------------------------ JSON bodies *)

\* A JSON value: an object (a map from keys to strings), an array, or null.
\* JNull is also Python's None.
JNull == [type |-> "null", fields |-> EmptyMap]

JArray == [type |-> "array", fields |-> EmptyMap]

JObject(fields) == [type |-> "object", fields |-> fields]

\* isinstance(payload, dict)
IsDict(payload) == payload.type = "object"

\* dict with key k set to v
SetKey(map, k, v) == [x \in (DOMAIN map) \cup {k} |-> IF x = k THEN v ELSE map[x]]

\* An _apply_model that fills in a missing model and never overrides one.
ApplyModelSetDefault(payload, model, force) ==
    IF ~IsDict(payload) THEN payload
    ELSE IF Has(payload.fields, "model") THEN payload
    ELSE JObject(SetKey(payload.fields, "model", model))

\* _apply_model(payload, model, force)
ApplyModel(payload, model, force) ==
    IF ~IsDict(payload) THEN payload
    ELSE IF force THEN JObject(SetKey(payload.fields, "model", model))
    ELSE IF Has(payload.fields, "model") THEN payload
    ELSE JObject(SetKey(payload.fields, "model", model))

\* The bodies a client sends.
Bodies ==
    { "",
      "{oops",
      "null",
      "[1]",
      "{\"messages\":\"hi\"}",
      "{\"model\":\"a\",\"messages\":\"hi\"}" }

\* request.json(): json.loads of the body; ok is FALSE where it raises.
JsonLoads(bytes) ==
    CASE bytes = "null" -> [ok |-> TRUE, value |-> JNull]
      [] bytes = "[1]" -> [ok |-> TRUE, value |-> JArray]
      [] bytes = "{\"messages\":\"hi\"}" ->
            [ok |-> TRUE, value |-> JObject([k \in {"messages"} |-> <<"h", "i">>])]
      [] bytes = "{\"model\":\"a\",\"messages\":\"hi\"}" ->
            [ok |-> TRUE,
             value |-> JObject([k \in {"model", "messages"} |->
                                  IF k = "model" THEN <<"a">> ELSE <<"h", "i">>])]
      [] OTHER -> [ok |-> FALSE, value |-> JNull]

(* ------------------------------------------------------- request inputs *)

\* The query strings of the inbound requests, as the <<name, value>> pairs
\* they are made of: a name may be repeated.
QueryLists ==
    { <<>>,
      << <<"model", <<>>>> >>,
      << <<"model", <<"a">>>> >>,
      << <<"model", <<" ", "a", "/", "c">>>>, <<"stream", <<"1">>>> >>,
      << <<"stop", <<"x">>>>, <<"stop", <<"y">>>> >> }

\* Every value of the model query parameter of at most MaxLen characters, over
\* a letter, the blank and the slash.
RawModels == UNION {[1..n -> {"a", " ", "/"}] : n \in 0..MaxLen}

\* The query strings with a model parameter only.
ModelQueries == {<< <<"model", raw>> >> : raw \in RawModels}

\* request.query_params as a mapping (get, in, dict()): Starlette's multi-dict
\* answers with the last value of a repeated name.
RECURSIVE QueryDict(_)
QueryDict(items) ==
    IF items = <<>> THEN EmptyMap
    ELSE LET last == items[Len(items)]
         IN  SetKey(QueryDict(SubSeq(items, 1, Len(items) - 1)), last[1], last[2])

\* UPSTREAM_BASE (line 9)
UPSTREAM_BASE == "http://ollama:11434"

\* The method and the path under /v1/ of the requests the generic route gets:
\* GET /v1/models and GET /v1/chat/completions go to the routes declared before it.
Routes ==
    { [method |-> "POST", path |-> <<"chat", "completions">>],
      [method |-> "GET", path |-> <<"embeddings">>],
      [method |-> "DELETE", path |-> <<"files", "f1">>] }

\* The headers of the inbound requests (names in lower case, as Starlette gives
\* them): without a body, with a body declared as text, with one declared as JSON.
BareHeaders == [k \in {"host"} |-> "proxy:8000"]

TextHeaders ==
    [k \in {"host", "content-type", "transfer-encoding"} |->
        CASE k = "host" -> "proxy:8000"
          [] k = "content-type" -> "text/plain"
          [] OTHER -> "chunked"]

JsonHeaders ==
    [k \in {"host", "content-type", "content-length", "authorization"} |->
        CASE k = "host" -> "proxy:8000"
          [] k = "content-type" -> "Application/JSON; charset=utf-8"
          [] k = "authorization" -> "Bearer k"
          [] OTHER -> "5"]

\* The headers and bodies of the inbound requests.
Inbounds ==
    {[headers |-> BareHeaders, body |-> ""]}
    \cup {[headers |-> TextHeaders, body |-> b] :
              b \in {"{oops", "{\"model\":\"a\",\"messages\":\"hi\"}"}}
    \cup {[headers |-> JsonHeaders, body |-> b] : b \in Bodies}

(* --------------------------------------------------- the backend's answers *)

\* Bodies are sequences of bytes; a body arrives as a sequence of chunks.
RECURSIVE Concat(_)
Concat(chunks) == IF chunks = <<>> THEN <<>> ELSE Head(chunks) \o Concat(Tail(chunks))

\* The headers of the backend's answers to /v1/* calls (names in lower case, as
\* httpx gives them).
JsonAnswerHeaders ==
    [k \in {"content-type", "content-length", "x-request-id"} |->
        CASE k = "content-type" -> "application/json"
          [] k = "content-length" -> "2"
          [] OTHER -> "r1"]

GzipAnswerHeaders ==
    [k \in {"content-type", "content-encoding"} |->
        IF k = "content-type" THEN "application/json" ELSE "gzip"]

EventAnswerHeaders ==
    [k \in {"content-type", "cache-control"} |->
        IF k = "content-type" THEN "text/event-stream" ELSE "no-cache"]

GzipEventAnswerHeaders ==
    [k \in {"content-type", "content-encoding"} |->
        IF k = "content-type" THEN "Text/Event-Stream; charset=utf-8" ELSE "gzip"]

\* The bytes of a compressed body: a frame marker, then the payload.
Gzip(content) == <<"gz">> \o content

\* The backend's answers to /v1/* calls: status, headers, and the body as the
\* chunks the backend writes one after the other.
V1Answers ==
    { [status |-> 200, headers |-> JsonAnswerHeaders, chunks |-> << <<"o", "k">> >>],
      [status |-> 404, headers |-> GzipAnswerHeaders,
       chunks |-> << Gzip(<<"n">>), <<"o">> >>],
      [status |-> 200, headers |-> EventAnswerHeaders,
       chunks |-> << <<"d", "1">>, <<"d", "2">>, <<"d", "3">> >>],
      [status |-> 404, headers |-> GzipEventAnswerHeaders, chunks |-> << Gzip(<<"e">>) >>],
      [status |-> 200, headers |-> EmptyMap, chunks |-> <<>>] }

\* "text/event-stream" in ct.lower()
IsEventStream(ct) == ct \in {"text/event-stream", "Text/Event-Stream; charset=utf-8"}

\* httpx's content decoding: the body as r.aread() and r.aiter_bytes() give it
Decoded(headers, bytes) ==
    IF Has(headers, "content-encoding") /\ bytes /= <<>> THEN Tail(bytes) ELSE bytes

\* r.aiter_bytes() of a response whose body httpx has read already: the whole
\* content as one chunk, and no chunk for an empty content.
AiterBytes(content) == IF content = <<>> THEN <<>> ELSE <<content>>

\* HTTP statuses of the backend's answers to GET /v1/models.
ListStatuses == {200, 204, 404}

\* The JSON values the listing handler deals with: the backend's model list,
\* the backend's error body, and the list the handler makes up (lines 125-130).
NoJson == [object |-> "none", data |-> {}]

BackendList(models) ==
    [object |-> "list",
     data |-> {[id |-> m, object |-> "model", owned_by |-> "library"] : m \in models}]

BackendError == [object |-> "error", data |-> {}]

FallbackList ==
    [object |-> "list",
     data |-> {[id |-> DEFAULT_MODEL, object |-> "model", owned_by |-> "ollama"]}]

\* "application/json" in content_type.lower()
IsJsonContentType(ct) == ct \in {"application/json", "Application/JSON; charset=utf-8"}

\* Optional values: <<>> is None, <<v>> is v.
None == <<>>

Some(v) == <<v>>

(* ------------------------------------------------------------------ state *)

VARIABLES
    AUTO_PULL,              \* line 13
    MODELS_CACHE_TTL_SEC,   \* line 16
    clock,                  \* time.time()
    models_cache,           \* _models_cache, line 17
    models_cache_ts,        \* _models_cache_ts, line 18
    upstream_models,        \* the models the backend holds
    task,                   \* per request task: position, locals, call log
    trail,                  \* what the last cache operations were
    workload                \* the clients: which tasks they use, what they send

vars == <<AUTO_PULL, MODELS_CACHE_TTL_SEC, clock, models_cache, models_cache_ts,
          upstream_models, task, trail, workload>>

config == <<AUTO_PULL, MODELS_CACHE_TTL_SEC, workload>>

\* The workloads.  "concurrent": requests in flight at the same time, with and
\* without a model override and with and without a JSON body.  "solo": one
\* request at a time, with every query, header set and body.  "pick": one
\* request at a time, with every value of the model query parameter, against
\* a backend that cannot pull.  "brief": requests in flight at the same time,
\* all without query and body.
WorkTasks == IF workload \in {"concurrent", "brief"} THEN Tasks ELSE {"t1"}

WorkQueries ==
    CASE workload = "solo" -> QueryLists
      [] workload = "pick" -> {<<>>} \cup ModelQueries
      [] workload = "brief" -> {<<>>}
      [] OTHER -> {<<>>, << <<"model", <<"a">>>> >>}

WorkRoutes ==
    IF workload = "solo" THEN Routes
    ELSE {[method |-> "POST", path |-> <<"chat", "completions">>]}

WorkInbounds ==
    IF workload = "solo" THEN Inbounds
    ELSE IF workload = "brief" THEN {[headers |-> BareHeaders, body |-> ""]}
    ELSE {[headers |-> BareHeaders, body |-> ""],
          [headers |-> JsonHeaders, body |-> "{\"model\":\"a\",\"messages\":\"hi\"}"]}

WorkAnswers ==
    IF workload = "solo" THEN V1Answers
    ELSE IF workload = "brief"
    THEN {[status |-> 404, headers |-> GzipEventAnswerHeaders,
           chunks |-> << Gzip(<<"e">>) >>]}
    ELSE {[status |-> 200, headers |-> JsonAnswerHeaders, chunks |-> << <<"o", "k">> >>],
          [status |-> 404, headers |-> GzipEventAnswerHeaders,
           chunks |-> << Gzip(<<"e">>) >>]}

\* The statuses the backend answers POST /api/pull with.
WorkPullStatuses == IF workload = "pick" THEN {500} ELSE ApiStatuses

cache == <<models_cache, models_cache_ts>>

NoReply == [status |-> 0, names |-> {}]

NoInbound == [headers |-> EmptyMap, body |-> ""]

NoRoute == [method |-> "", path |-> <<>>]

NoOutbound == [sent |-> FALSE, method |-> "", url |-> <<>>,
               params |-> EmptyMap, headers |-> EmptyMap,
               content |-> None, json |-> JNull]

NoWire == [form |-> "none", bytes |-> "", value |-> JNull]

\* The backend's answer to a /v1 call as far as it has arrived: of the chunks
\* the backend writes, the first `produced` are written.
NoUpstream == [status |-> 0, headers |-> EmptyMap, chunks |-> <<>>, produced |-> 0,
               json |-> NoJson]

\* What the client has received: status, headers, the body chunks so far, or
\* the JSON value of a handler that returns one.
NoResponse == [status |-> 0, headers |-> EmptyMap, streamed |-> FALSE, chunks |-> <<>>,
               json |-> NoJson]

\* A task that handles no request.
IdleTask ==
    [pc |-> "idle", kind |-> "none", items |-> <<>>, query |-> EmptyMap, model |-> <<>>,
     now |-> 0, reply |-> NoReply,
     nTags |-> 0, nPull |-> 0, pulled |-> None, tagsStatus |-> 0, pullStatus |-> 0,
     has |-> None,
     route |-> NoRoute, inbound |-> NoInbound, outbound |-> NoOutbound, wire |-> NoWire,
     nFwd |-> 0, upstream |-> NoUpstream, pending |-> <<>>,
     response |-> NoResponse]

\* time.time() when the process starts: the epoch lies further back than any
\* configured TTL, so the empty cache of lines 17-18 starts expired.
FirstTime ==
    CHOOSE n \in 1..MaxTime :
        /\ \A ttl \in TTLValues : n > ttl
        /\ \E ttl \in TTLValues : n = ttl + 1

Start ==
    /\ AUTO_PULL \in BOOLEAN
    /\ MODELS_CACHE_TTL_SEC \in TTLValues
    /\ clock = FirstTime
    /\ models_cache = {}
    /\ models_cache_ts = 0
    /\ upstream_models \in {{}, {DEFAULT_MODEL}}
    /\ task = [t \in Tasks |-> IdleTask]
    /\ trail = [refreshEnd |-> None, invalidated |-> FALSE]

Init == Start /\ workload = "concurrent"

InitSolo == Start /\ workload = "solo"

InitPick == Start /\ workload = "pick"

InitBrief == Start /\ workload = "brief"

(* ------------------------------------------------- the availability cache *)

\* An expiry test that trusts the set one second longer.
ExpiredLate(now, ts, ttl) == now - ts > ttl + 1

\* now - _models_cache_ts > MODELS_CACHE_TTL_SEC (line 79)
Expired(now, ts, ttl) == now - ts > ttl

\* A raise_for_status that never raises.
RaiseForStatusNever(status) == FALSE

\* r.raise_for_status() (lines 66 and 93): TRUE where it raises
RaiseForStatus(status) == status /= 200

\* The timestamp _pull_model resets the cache to (line 96)
InvalidatedTs == 0

\* An _ensure_model that issues no pull while another request's pull of the
\* same model is under way.
AnswerDeduplicated(rec, set) ==
    LET found == rec.model \in set
        r1 == [rec EXCEPT !.has = Some(found), !.now = 0, !.reply = NoReply]
        shared == \E u \in Tasks : /\ task[u].pc \in {"pull", "pull_reply"}
                                   /\ task[u].model = rec.model
    IN  IF found \/ shared
        THEN [r1 EXCEPT !.pc = "rewrite"]
        ELSE [r1 EXCEPT !.pc = "pull", !.nPull = @ + 1, !.pulled = Some(rec.model)]

\* Line 82 and lines 103-104: the answer of _has_model, computed from `set`, and
\* what _ensure_model does with it: return, or issue POST /api/pull for the model.
Answer(rec, set) ==
    LET found == rec.model \in set
        r1 == [rec EXCEPT !.has = Some(found), !.now = 0, !.reply = NoReply]
    IN  IF found
        THEN [r1 EXCEPT !.pc = "rewrite"]
        ELSE [r1 EXCEPT !.pc = "pull", !.nPull = @ + 1, !.pulled = Some(rec.model)]

\* An _ensure_model without the AUTO_PULL test of line 100.
EnsureStartAlways(rec) ==
    LET r1 == [rec EXCEPT !.now = clock]
    IN  IF Expired(clock, models_cache_ts, MODELS_CACHE_TTL_SEC)
        THEN [r1 EXCEPT !.pc = "tags", !.nTags = @ + 1]
        ELSE Answer(r1, models_cache)

\* _ensure_model up to its first await: the AUTO_PULL test, and _has_model's
\* clock read and expiry test; GET /api/tags is issued when the cache expired.
EnsureStart(rec) ==
    IF ~AUTO_PULL
    THEN [rec EXCEPT !.pc = "rewrite"]
    ELSE LET r1 == [rec EXCEPT !.now = clock]
         IN  IF Expired(clock, models_cache_ts, MODELS_CACHE_TTL_SEC)
             THEN [r1 EXCEPT !.pc = "tags", !.nTags = @ + 1]
             ELSE Answer(r1, models_cache)

(* ---------------------------------------------------------------- actions *)

\* Time passes.
Tick ==
    /\ clock < MaxTime
    /\ clock' = clock + 1
    /\ UNCHANGED <<config, cache, upstream_models, task, trail>>

\* The answer of chat_completions_probe (lines 110-115)
ProbeAnswer ==
    [object |-> "probe",
     data |-> {[id |-> DEFAULT_MODEL, object |-> "default_model",
                owned_by |-> IF AUTO_PULL THEN "auto_pull" ELSE "no_auto_pull"]}]

\* GET /v1/chat/completions: chat_completions_probe
Probe(t) ==
    /\ t \in WorkTasks
    /\ task[t].pc = "idle"
    /\ task' = [task EXCEPT ![t] =
                  [IdleTask EXCEPT !.pc = "done", !.kind = "probe",
                                   !.response = [NoResponse EXCEPT !.status = 200,
                                                                   !.json = ProbeAnswer]]]
    /\ UNCHANGED <<config, clock, cache, upstream_models, trail>>

\* GET /v1/models: models() up to its await of the backend's /v1/models
ModelsSend(t) ==
    /\ t \in WorkTasks
    /\ task[t].pc = "idle"
    /\ task' = [task EXCEPT ![t] = [IdleTask EXCEPT !.pc = "models", !.kind = "models"]]
    /\ UNCHANGED <<config, clock, cache, upstream_models, trail>>

\* The backend answers GET /v1/models: its model list, or an error.
ModelsServe(t) ==
    /\ task[t].pc = "models"
    /\ \E status \in ListStatuses :
          task' = [task EXCEPT ![t].pc = "models_reply",
                               ![t].upstream =
                                   [NoUpstream EXCEPT
                                       !.status = status,
                                       !.json = CASE status = 200 ->
                                                         BackendList(upstream_models)
                                                  [] status = 204 -> NoJson
                                                  [] OTHER -> BackendError]]
    /\ UNCHANGED <<config, clock, cache, upstream_models, trail>>

\* A test of the backend's status that takes every 2xx for a model list.
ListingOkAny2xx(status) == status \in 200..299

\* r.status_code == 200 (line 123)
ListingOk(status) == status = 200

\* models() from the backend's answer on (lines 123-130)
ModelsReturn(t) ==
    /\ task[t].pc = "models_reply"
    /\ task' = [task EXCEPT ![t].pc = "done",
                            ![t].upstream = NoUpstream,
                            ![t].response =
                                [NoResponse EXCEPT
                                    !.status = 200,
                                    !.json = IF ListingOk(task[t].upstream.status)
                                             THEN task[t].upstream.json
                                             ELSE FallbackList]]
    /\ UNCHANGED <<config, clock, cache, upstream_models, trail>>

\* proxy_v1 from its start to its first await: _pick_model, then _ensure_model
\* up to GET /api/tags, POST /api/pull or its return.
ProxyReceive(t) ==
    /\ t \in WorkTasks
    /\ task[t].pc = "idle"
    /\ \E items \in WorkQueries :
          LET q == QueryDict(items)
          IN  task' = [task EXCEPT ![t] =
                          EnsureStart([IdleTask EXCEPT !.kind = "proxy", !.items = items,
                                                       !.query = q,
                                                       !.model = PickModel(q)])]
    /\ trail' = IF AUTO_PULL THEN [refreshEnd |-> None, invalidated |-> FALSE] ELSE trail
    /\ UNCHANGED <<config, clock, cache, upstream_models>>

\* The backend answers GET /api/tags with its local models, or fails.
TagsServe(t) ==
    /\ task[t].pc = "tags"
    /\ \E status \in ApiStatuses :
          task' = [task EXCEPT ![t].pc = "tags_reply", ![t].tagsStatus = status,
                               ![t].reply = [status |-> status,
                                             names |-> IF status = 200
                                                       THEN upstream_models ELSE {}]]
    /\ UNCHANGED <<config, clock, cache, upstream_models, trail>>

\* A _has_model that stores the answer's names before raise_for_status.
FetchReturnStoresFirst(t) ==
    /\ task[t].pc = "tags_reply"
    /\ models_cache' = task[t].reply.names
    /\ models_cache_ts' = task[t].now
    /\ IF RaiseForStatus(task[t].reply.status)
       THEN /\ task' = [task EXCEPT ![t].pc = "failed", ![t].now = 0,
                                    ![t].reply = NoReply]
            /\ UNCHANGED trail
       ELSE /\ task' = [task EXCEPT ![t] = Answer(task[t], task[t].reply.names)]
            /\ trail' = [trail EXCEPT !.refreshEnd = Some(clock)]
    /\ UNCHANGED <<config, clock, upstream_models>>

\* A _has_model that fetches the listing a second time when the first fetch
\* failed.
FetchReturnRetries(t) ==
    /\ task[t].pc = "tags_reply"
    /\ IF RaiseForStatus(task[t].reply.status)
       THEN /\ task' = IF task[t].nTags < 2
                       THEN [task EXCEPT ![t].pc = "tags", ![t].nTags = @ + 1,
                                         ![t].reply = NoReply]
                       ELSE [task EXCEPT ![t].pc = "failed", ![t].now = 0,
                                         ![t].reply = NoReply]
            /\ UNCHANGED <<cache, trail>>
       ELSE /\ models_cache' = task[t].reply.names
            /\ models_cache_ts' = task[t].now
            /\ task' = [task EXCEPT ![t] = Answer(task[t], task[t].reply.names)]
            /\ trail' = [trail EXCEPT !.refreshEnd = Some(clock)]
    /\ UNCHANGED <<config, clock, upstream_models>>

\* _fetch_local_models from line 66 on, the rest of _has_model, and
\* _ensure_model's use of the answer.
FetchReturn(t) ==
    /\ task[t].pc = "tags_reply"
    /\ IF RaiseForStatus(task[t].reply.status)
       THEN /\ task' = [task EXCEPT ![t].pc = "failed", ![t].now = 0,
                                    ![t].reply = NoReply]
            /\ UNCHANGED <<cache, trail>>
       ELSE /\ models_cache' = task[t].reply.names
            /\ models_cache_ts' = task[t].now
            /\ task' = [task EXCEPT ![t] = Answer(task[t], task[t].reply.names)]
            /\ trail' = [trail EXCEPT !.refreshEnd = Some(clock)]
    /\ UNCHANGED <<config, clock, upstream_models>>

\* The backend answers POST /api/pull: the model is now local, or the pull failed.
PullServe(t) ==
    /\ task[t].pc = "pull"
    /\ \E status \in WorkPullStatuses :
          /\ task' = [task EXCEPT ![t].pc = "pull_reply", ![t].pullStatus = status,
                                  ![t].reply = [status |-> status, names |-> {}]]
          /\ upstream_models' = IF status = 200
                                THEN upstream_models \cup {task[t].model}
                                ELSE upstream_models
    /\ UNCHANGED <<config, clock, cache, trail>>

\* A _pull_model without the reset of line 96.
PullReturnKeepsTs(t) ==
    /\ task[t].pc = "pull_reply"
    /\ IF RaiseForStatus(task[t].reply.status)
       THEN /\ task' = [task EXCEPT ![t].pc = "failed", ![t].reply = NoReply]
            /\ UNCHANGED trail
       ELSE /\ task' = [task EXCEPT ![t].pc = "rewrite", ![t].reply = NoReply]
            /\ trail' = [refreshEnd |-> None, invalidated |-> TRUE]
    /\ UNCHANGED <<config, clock, cache, upstream_models>>

\* _pull_model from line 93 on, and _ensure_model's return.
PullReturn(t) ==
    /\ task[t].pc = "pull_reply"
    /\ IF RaiseForStatus(task[t].reply.status)
       THEN /\ task' = [task EXCEPT ![t].pc = "failed", ![t].reply = NoReply]
            /\ UNCHANGED <<models_cache_ts, trail>>
       ELSE /\ models_cache_ts' = InvalidatedTs
            /\ task' = [task EXCEPT ![t].pc = "rewrite", ![t].reply = NoReply]
            /\ trail' = [refreshEnd |-> None, invalidated |-> TRUE]
    /\ UNCHANGED <<config, clock, models_cache, upstream_models>>

(* ------------------------------------------------------ request rewriting *)

\* request.headers.get("content-type", "")
ContentType(headers) == IF Has(headers, "content-type") THEN headers["content-type"] ELSE ""

\* Lines 145-148: the outbound headers
OutHeaders(headers) == Pop(Pop(Pop(headers, "content-length"), "transfer-encoding"), "host")

\* Lines 151-152: the outbound query
OutParams(query) == Pop(query, "model")

\* A JSON branch that empties body_bytes before the parse is known to succeed.
BodyAndPayloadDropsRaw(query, model, headers, body) ==
    IF IsJsonContentType(ContentType(headers)) /\ body /= ""
    THEN LET parsed == JsonLoads(body)
         IN  IF parsed.ok
             THEN [body_bytes |-> "",
                   json_payload |-> ApplyModel(parsed.value, model, Has(query, "model"))]
             ELSE [body_bytes |-> "", json_payload |-> JNull]
    ELSE [body_bytes |-> body, json_payload |-> JNull]

\* Lines 156-169: body_bytes and json_payload after the JSON branch
BodyAndPayload(query, model, headers, body) ==
    IF IsJsonContentType(ContentType(headers)) /\ body /= ""
    THEN LET parsed == JsonLoads(body)
         IN  IF parsed.ok
             THEN [body_bytes |-> "",
                   json_payload |-> ApplyModel(parsed.value, model, Has(query, "model"))]
             ELSE [body_bytes |-> body, json_payload |-> JNull]
    ELSE [body_bytes |-> body, json_payload |-> JNull]

\* Line 135: upstream_url, as the base and the path segments after it
UpstreamUrl(path) == <<UPSTREAM_BASE, "v1">> \o path

\* Lines 172-179: the arguments of client.request
Rewrite(route, query, model, headers, body) ==
    LET bp == BodyAndPayload(query, model, headers, body)
    IN  [sent |-> TRUE,
         method |-> route.method,
         url |-> UpstreamUrl(route.path),
         params |-> OutParams(query),
         headers |-> OutHeaders(headers),
         content |-> IF bp.json_payload = JNull THEN Some(bp.body_bytes) ELSE None,
         json |-> bp.json_payload]

\* What httpx puts on the wire for content= and json=: the content when one is
\* given, else the JSON encoding of a json that is not None, else no body.
EncodeRequest(content, json) ==
    IF content /= None THEN [form |-> "bytes", bytes |-> content[1], value |-> JNull]
    ELSE IF json /= JNull THEN [form |-> "json", bytes |-> "", value |-> json]
    ELSE [form |-> "bytes", bytes |-> "", value |-> JNull]

\* proxy_v1 from line 145 to the await of client.request: the request is rewritten
\* and sent to the backend's /v1 path.
Forward(t) ==
    /\ task[t].pc = "rewrite"
    /\ \E route \in WorkRoutes, inb \in WorkInbounds :
          LET out == Rewrite(route, task[t].query, task[t].model, inb.headers, inb.body)
          IN  task' = [task EXCEPT ![t].pc = "forwarded",
                                   ![t].nFwd = @ + 1,
                                   ![t].route = route,
                                   ![t].inbound = inb,
                                   ![t].outbound = out,
                                   ![t].wire = EncodeRequest(out.content, out.json)]
    /\ UNCHANGED <<config, clock, cache, upstream_models, trail>>

\* The backend answers the /v1 call with a status line and headers; the body
\* follows.  The handler stays in its await of client.request.
V1Serve(t) ==
    /\ task[t].pc = "forwarded"
    /\ \E answer \in WorkAnswers :
          task' = [task EXCEPT ![t] =
                      [IdleTask EXCEPT !.pc = "receiving", !.kind = "proxy",
                                       !.upstream =
                                           [NoUpstream EXCEPT
                                               !.status = answer.status,
                                               !.headers = answer.headers,
                                               !.chunks = answer.chunks]]]
    /\ UNCHANGED <<config, clock, cache, upstream_models, trail>>

\* The backend writes the next chunk of the body.
V1Chunk(t) ==
    /\ task[t].pc = "receiving"
    /\ task[t].upstream.produced < Len(task[t].upstream.chunks)
    /\ task' = [task EXCEPT ![t].upstream.produced = @ + 1]
    /\ UNCHANGED <<config, clock, cache, upstream_models, trail>>

\* A relay that answers 502 where the backend answered with an error status.
RelayStatusMasksErrors(status) == IF status >= 400 THEN 502 ELSE status

\* status_code=r.status_code (lines 190 and 194)
RelayStatus(status) == status

\* Lines 188-189 and 192-193: the headers of the response to the client
RelayHeaders(headers) == Pop(headers, "content-encoding")

\* proxy_v1 from the return of client.request on (lines 182-194).
\* client.request returns when httpx has read the whole body of the answer;
\* the handler then returns a StreamingResponse over r.aiter_bytes(), or a
\* Response with the content.
Relay(t) ==
    /\ task[t].pc = "receiving"
    /\ task[t].upstream.produced = Len(task[t].upstream.chunks)
    /\ LET up == task[t].upstream
           content == Decoded(up.headers, Concat(up.chunks))
           head == [NoResponse EXCEPT !.status = RelayStatus(up.status),
                                      !.headers = RelayHeaders(up.headers)]
       IN  IF IsEventStream(ContentType(up.headers))
           THEN task' = [task EXCEPT
                            ![t].pc = IF AiterBytes(content) = <<>> THEN "done"
                                      ELSE "streaming",
                            ![t].pending = AiterBytes(content),
                            ![t].response = [head EXCEPT !.streamed = TRUE]]
           ELSE task' = [task EXCEPT
                            ![t].pc = "done",
                            ![t].upstream = NoUpstream,
                            ![t].response = [head EXCEPT !.chunks = <<content>>]]
    /\ UNCHANGED <<config, clock, cache, upstream_models, trail>>

\* The StreamingResponse sends the next chunk gen() yields (lines 184-186) to
\* the client; after the last one the response is complete.
StreamChunk(t) ==
    /\ task[t].pc = "streaming"
    /\ task[t].pending /= <<>>
    /\ task' = [task EXCEPT
                    ![t].pc = IF Tail(task[t].pending) = <<>> THEN "done" ELSE "streaming",
                    ![t].pending = Tail(@),
                    ![t].response.chunks = Append(@, Head(task[t].pending))]
    /\ UNCHANGED <<config, clock, cache, upstream_models, trail>>

\* The response, or the failure, has gone to the client; the task is over.
Finish(t) ==
    /\ task[t].pc \in {"done", "failed"}
    /\ task' = [task EXCEPT ![t] = IdleTask]
    /\ UNCHANGED <<config, clock, cache, upstream_models, trail>>

Next ==
    \/ Tick
    \/ \E t \in Tasks : Probe(t)
    \/ \E t \in Tasks : ModelsSend(t)
    \/ \E t \in Tasks : ModelsServe(t)
    \/ \E t \in Tasks : ModelsReturn(t)
    \/ \E t \in Tasks : ProxyReceive(t)
    \/ \E t \in Tasks : TagsServe(t)
    \/ \E t \in Tasks : FetchReturn(t)
    \/ \E t \in Tasks : PullServe(t)
    \/ \E t \in Tasks : PullReturn(t)
    \/ \E t \in Tasks : Forward(t)
    \/ \E t \in Tasks : V1Serve(t)
    \/ \E t \in Tasks : V1Chunk(t)
    \/ \E t \in Tasks : Relay(t)
    \/ \E t \in Tasks : StreamChunk(t)
    \/ \E t \in Tasks : Finish(t)

\* Two tasks in flight.
Spec == Init /\ [][Next]_vars

\* One task, every kind of request.
SpecSolo == InitSolo /\ [][Next]_vars

\* One task, every value of the model query parameter.
SpecPick == InitPick /\ [][Next]_vars

\* The steps that do not wait for a client: the backend answers a call it has
\* received, and the event loop resumes a handler whose await has completed.
Progress(t) ==
    \/ ModelsServe(t)
    \/ ModelsReturn(t)
    \/ TagsServe(t)
    \/ FetchReturn(t)
    \/ PullServe(t)
    \/ PullReturn(t)
    \/ Forward(t)
    \/ V1Serve(t)
    \/ V1Chunk(t)
    \/ Relay(t)
    \/ StreamChunk(t)

\* Two tasks in flight, every backend call is answered and every handler that
\* can go on is resumed.
SpecFair == InitBrief /\ [][Next]_vars /\ \A t \in Tasks : WF_vars(Progress(t))

(* ----------------------------------------------------------------- claims *)

\* The backend answered this task's /api/tags or /api/pull call with a failure
\* and the task has received the answer.
EnsureFailed(r) ==
    \/ r.tagsStatus \notin {0, 200} /\ r.pc /= "tags_reply"
    \/ r.pullStatus \notin {0, 200} /\ r.pc /= "pull_reply"

\* C1: with auto-pull enabled, a request is sent to the backend's /v1 path only
\* after ensure found the selected model in the cache or its pull returned
\* success; a request whose listing fetch or pull failed has failed and was not
\* forwarded.
C1_ForwardOnlyAfterEnsure ==
    \A t \in Tasks :
        LET r == task[t]
        IN  AUTO_PULL =>
              /\ r.outbound.sent => (r.has = Some(TRUE) \/ r.pullStatus = 200)
              /\ r.outbound.sent => ~EnsureFailed(r)
              /\ EnsureFailed(r) => r.pc = "failed"

C1_Witness ==
    \E t \in Tasks :
        /\ AUTO_PULL
        /\ task[t].outbound.sent
        /\ task[t].has = Some(FALSE)
        /\ task[t].pullStatus = 200

\* C2: with auto-pull enabled, ensure issues no pull when contains answered
\* true; when contains answered false it issues exactly one pull, for the model
\* it was called with, and when that pull has succeeded the cache timestamp is
\* reset in the step in which ensure returns.
C2_PullLog(t) ==
    LET r == task[t]
    IN  /\ r.has = None => r.nPull = 0 /\ r.pulled = None
        /\ r.has = Some(TRUE) => r.nPull = 0 /\ r.pulled = None
        /\ r.has = Some(FALSE) => r.nPull = 1 /\ r.pulled = Some(r.model)

C2_OnePullThenInvalidate ==
    [][\A t \in Tasks :
          AUTO_PULL =>
            /\ C2_PullLog(t)'
            /\ (task[t].pc = "pull_reply" /\ task'[t].pc = "rewrite")
                  => (task[t].reply.status = 200 /\ models_cache_ts' = 0)
            /\ (task[t].pc /= "rewrite" /\ task'[t].pc = "rewrite")
                  => (task'[t].has = Some(TRUE) \/ task[t].pc = "pull_reply")]_vars

C2_Witness ==
    \E t \in Tasks :
        /\ AUTO_PULL
        /\ task[t].pc = "rewrite"
        /\ task[t].has = Some(FALSE)
        /\ task[t].nTags = 1
        /\ task[t].nPull = 1
        /\ task[t].pullStatus = 200
        /\ models_cache_ts = 0

\* C3: with auto-pull disabled no request, in any interleaving, calls the
\* backend's /api/tags or /api/pull, and the cache keeps its initial set and
\* timestamp.
C3_DisabledNeverProvisions ==
    ~AUTO_PULL =>
        /\ models_cache = {}
        /\ models_cache_ts = 0
        /\ \A t \in Tasks :
              /\ task[t].nTags = 0
              /\ task[t].nPull = 0
              /\ task[t].tagsStatus = 0
              /\ task[t].pullStatus = 0
              /\ task[t].pc \notin {"tags", "tags_reply", "pull", "pull_reply", "failed"}

C3_Witness ==
    /\ ~AUTO_PULL
    /\ task["t1"].outbound.sent
    /\ task["t1"].model \notin upstream_models
    /\ task["t2"].kind = "models"
    /\ clock > MODELS_CACHE_TTL_SEC + 1

\* A step in which task t calls contains: _has_model reads the clock (line 78).
HasModelStarts(t) == AUTO_PULL /\ task[t].pc = "idle" /\ task'[t].kind = "proxy"

\* C4: a contains call that starts after a contains call refreshed the cache,
\* with no invalidate in between and less than TTL seconds after that refresh
\* finished (trail.refreshEnd), issues no listing fetch.
C4_NoFetchRightAfterRefresh ==
    [][\A t \in Tasks :
          (/\ HasModelStarts(t)
           /\ trail.refreshEnd /= None
           /\ clock - trail.refreshEnd[1] < MODELS_CACHE_TTL_SEC)
             => task'[t].pc /= "tags"]_vars

\* C5: a contains call that starts more than TTL seconds after the cache
\* timestamp issues a listing fetch and has no answer until the fetch returned;
\* every answer is computed from the set stored with a timestamp at most TTL
\* seconds old at the start of the call, or from the names the call itself
\* fetched and, in the same step, stored with its timestamp.
C5_AnswerFromTrustedSet ==
    [][\A t \in Tasks :
          /\ (HasModelStarts(t) /\ clock - models_cache_ts > MODELS_CACHE_TTL_SEC)
                => (task'[t].pc = "tags" /\ task'[t].nTags = 1 /\ task'[t].has = None)
          /\ (task[t].has = None /\ task'[t].has /= None)
                => \/ /\ task[t].pc = "idle"
                      /\ clock - models_cache_ts <= MODELS_CACHE_TTL_SEC
                      /\ task'[t].has = Some(task'[t].model \in models_cache)
                      /\ UNCHANGED cache
                   \/ /\ task[t].pc = "tags_reply"
                      /\ task[t].reply.status = 200
                      /\ task'[t].has = Some(task[t].model \in task[t].reply.names)
                      /\ models_cache' = task[t].reply.names
                      /\ models_cache_ts' = task[t].now]_vars

C5_Witness ==
    \E t \in Tasks :
        /\ task[t].has = Some(TRUE)
        /\ task[t].nTags = 1
        /\ models_cache_ts > 1
        /\ models_cache /= {}

\* C6: the first contains call that starts after invalidate() issues a listing
\* fetch.
C6_FetchAfterInvalidate ==
    [][\A t \in Tasks :
          (HasModelStarts(t) /\ trail.invalidated) => task'[t].pc = "tags"]_vars

\* C7: a listing fetch that failed leaves the cached set and the timestamp as
\* they were, a pull that failed leaves the timestamp (and the set) as it was,
\* and in both cases the request fails.
C7_FailureLeavesCache ==
    [][\A t \in Tasks :
          /\ (/\ task[t].pc = "tags_reply"
              /\ task[t].reply.status /= 200
              /\ task'[t].pc /= "tags_reply")
                => (task'[t].pc = "failed" /\ UNCHANGED cache)
          /\ (/\ task[t].pc = "pull_reply"
              /\ task[t].reply.status /= 200
              /\ task'[t].pc /= "pull_reply")
                => (task'[t].pc = "failed" /\ UNCHANGED cache)]_vars

C7_Witness ==
    \E t \in Tasks :
        /\ task[t].pc = "failed"
        /\ task[t].tagsStatus = 500
        /\ models_cache /= {}
        /\ models_cache_ts > 0

\* The JSON value the backend reads from the outbound body, where it is one.
OutboundJson(r) ==
    IF r.wire.form = "json" THEN [ok |-> TRUE, value |-> r.wire.value]
    ELSE JsonLoads(r.wire.bytes)

\* The outbound body of r is an object that carries the fields of the inbound
\* object `inb`, with the model field as the query decides.
ModelRewritten(r, inb) ==
    LET out == OutboundJson(r)
    IN  /\ out.ok
        /\ IsDict(out.value)
        /\ DOMAIN out.value.fields = DOMAIN inb.fields \cup {"model"}
        /\ \A k \in DOMAIN inb.fields \ {"model"} : out.value.fields[k] = inb.fields[k]
        /\ out.value.fields["model"] =
              IF Has(r.query, "model") THEN r.model
              ELSE IF Has(inb.fields, "model") THEN inb.fields["model"]
              ELSE DEFAULT_MODEL

\* C8 as stated: for every forwarded request whose body parses as a JSON
\* object, the outbound body's model field is the selected model when the
\* request has a model query parameter, else the body's own model field, else
\* the default; the other fields are unchanged.
C8_AnyContentType ==
    \A t \in Tasks :
        LET r == task[t]
            parsed == JsonLoads(r.inbound.body)
        IN  (r.pc = "forwarded" /\ parsed.ok /\ IsDict(parsed.value))
                => ModelRewritten(r, parsed.value)

\* C8 as amended: the same, for the requests whose content-type contains
\* application/json.
C8_JsonContentType ==
    \A t \in Tasks :
        LET r == task[t]
            parsed == JsonLoads(r.inbound.body)
        IN  (/\ r.pc = "forwarded"
             /\ IsJsonContentType(ContentType(r.inbound.headers))
             /\ parsed.ok
             /\ IsDict(parsed.value))
                => ModelRewritten(r, parsed.value)

C8_Witness ==
    \E t \in Tasks :
        LET r == task[t]
            parsed == JsonLoads(r.inbound.body)
        IN  /\ r.pc = "forwarded"
            /\ IsJsonContentType(ContentType(r.inbound.headers))
            /\ parsed.ok
            /\ IsDict(parsed.value)
            /\ Has(parsed.value.fields, "model")
            /\ Has(r.query, "model")
            /\ r.wire.form = "json"
            /\ r.wire.value.fields["model"] /= parsed.value.fields["model"]

\* C9: every forwarded request carries either the inbound body bytes as they
\* came, or the parsed JSON value (an object with the model field rewritten),
\* never both and never neither; a body that was not empty is not forwarded as
\* an empty body.
C9_ExactlyOneBody ==
    \A t \in Tasks :
        LET r == task[t]
            parsed == JsonLoads(r.inbound.body)
            raw == r.wire.form = "bytes" /\ r.wire.bytes = r.inbound.body
            json == /\ r.wire.form = "json"
                    /\ parsed.ok
                    /\ IF IsDict(parsed.value)
                       THEN ModelRewritten(r, parsed.value)
                       ELSE r.wire.value = parsed.value
        IN  r.pc = "forwarded" =>
              /\ raw \/ json
              /\ ~(raw /\ json)
              /\ r.inbound.body /= "" => ~(r.wire.form = "bytes" /\ r.wire.bytes = "")

\* C10: a request that declares a JSON content-type and whose body is not
\* empty and does not parse is forwarded with its body bytes as they came and no
\* JSON payload, without the model query parameter and with its other query
\* parameters, and after ensure succeeded; a request fails only where a
\* backend call of ensure failed.
C10_ParseFailureFallsBack ==
    \A t \in Tasks :
        LET r == task[t]
        IN  /\ (/\ r.pc = "forwarded"
                /\ IsJsonContentType(ContentType(r.inbound.headers))
                /\ r.inbound.body /= ""
                /\ ~JsonLoads(r.inbound.body).ok)
                  => /\ r.outbound.content = Some(r.inbound.body)
                     /\ r.outbound.json = JNull
                     /\ r.wire = [form |-> "bytes", bytes |-> r.inbound.body,
                                  value |-> JNull]
                     /\ DOMAIN r.outbound.params = DOMAIN r.query \ {"model"}
                     /\ \A k \in DOMAIN r.outbound.params :
                           r.outbound.params[k] = r.query[k]
                     /\ AUTO_PULL => (r.has = Some(TRUE) \/ r.pullStatus = 200)
            /\ r.pc = "failed" => (r.tagsStatus = 500 \/ r.pullStatus = 500)

C10_Witness ==
    \E t \in Tasks :
        LET r == task[t]
        IN  /\ r.pc = "forwarded"
            /\ AUTO_PULL
            /\ r.nPull = 1
            /\ IsJsonContentType(ContentType(r.inbound.headers))
            /\ r.inbound.body = "{oops"
            /\ Has(r.query, "model")
            /\ Has(r.query, "stream")

\* C11: every request the generic route sends to the backend has no model query
\* parameter and no content-length, transfer-encoding or host header; every
\* other query parameter and header of the inbound request is forwarded with
\* its value; the method and the path under /v1/ are those of the inbound
\* request.
C11_ForwardedAsReceived ==
    \A t \in Tasks :
        LET r == task[t]
            out == r.outbound
            dropped == {"content-length", "transfer-encoding", "host"}
        IN  r.pc = "forwarded" =>
              /\ ~Has(out.params, "model")
              /\ DOMAIN out.headers \cap dropped = {}
              /\ \A i \in 1..Len(r.items) :
                    r.items[i][1] /= "model"
                       => /\ Has(out.params, r.items[i][1])
                          /\ out.params[r.items[i][1]] = r.items[i][2]
              /\ \A h \in DOMAIN r.inbound.headers \ dropped :
                    Has(out.headers, h) /\ out.headers[h] = r.inbound.headers[h]
              /\ out.method = r.route.method
              /\ out.url = <<UPSTREAM_BASE, "v1">> \o r.route.path

\* C12: when the backend's answer is an event stream, the client receives the
\* chunks the backend wrote, in order and with the same boundaries (three
\* backend chunks give three client chunks).  Stated for the answers whose body
\* carries no content coding.
C12_SameChunks ==
    \A t \in Tasks :
        LET r == task[t]
        IN  (/\ r.kind = "proxy"
             /\ r.pc = "done"
             /\ r.response.streamed
             /\ ~Has(r.upstream.headers, "content-encoding"))
                => r.response.chunks = r.upstream.chunks

\* The body of the backend's answer `up`, without the content coding its
\* content-encoding header names.
AnswerBody(up) == Decoded(up.headers, Concat(up.chunks))

C14_ListingVerbatimOrFallback ==
    [][\A t \in Tasks :
          /\ (task[t].pc = "models_reply" /\ task'[t].pc /= "models_reply")
                => /\ task'[t].pc = "done"
                   /\ task[t].upstream.status = 200
                         => task'[t].response.json = task[t].upstream.json
                   /\ task[t].upstream.status /= 200
                         => /\ task'[t].response.json.object = "list"
                            /\ task'[t].response.json.data =
                                  {[id |-> DEFAULT_MODEL, object |-> "model",
                                    owned_by |-> "ollama"]}
          /\ (task'[t] /= task[t] /\ task'[t].kind = "models")
                => /\ UNCHANGED cache
                   /\ task'[t].nTags = 0
                   /\ task'[t].nPull = 0
                   /\ task'[t].pc \in {"models", "models_reply", "done"}]_vars

C14_Witness ==
    \E t \in Tasks :
        /\ AUTO_PULL
        /\ task[t].kind = "models"
        /\ task[t].pc = "done"
        /\ task[t].response.json = FallbackList
        /\ models_cache /= {}
        /\ models_cache_ts > 0
        /\ DEFAULT_MODEL \notin upstream_models

\* s without its leading and trailing blanks: what lies between the first and
\* the last character that is not a blank.
TrimOf(s) ==
    LET solid == {i \in 1..Len(s) : s[i] /= " "}
    IN  IF solid = {} THEN <<>>
        ELSE SubSeq(s, CHOOSE i \in solid : \A j \in solid : i <= j,
                       CHOOSE i \in solid : \A j \in solid : i >= j)

\* s up to its first "/", or s where it has none.
CutAtSlash(s) ==
    LET slashes == {i \in 1..Len(s) : s[i] = "/"}
    IN  IF slashes = {} THEN s
        ELSE SubSeq(s, 1, (CHOOSE i \in slashes : \A j \in slashes : i <= j) - 1)

\* C15: the selected model is the model query parameter, trimmed, cut before
\* its first "/" and trimmed again, whenever that is not empty; it is the
\* default when the parameter is absent, empty or normalizes to empty.  The
\* normalized value has no "/" and no leading or trailing blank.
C15_SelectedModel ==
    \A t \in Tasks :
        LET r == task[t]
            given == Has(r.query, "model")
            wanted == IF given THEN TrimOf(CutAtSlash(TrimOf(r.query["model"]))) ELSE <<>>
            n == IF given THEN NormalizeModel(r.query["model"]) ELSE <<>>
        IN  (r.kind = "proxy" /\ r.pc \in {"tags", "pull", "rewrite", "forwarded"})
              => /\ r.model = IF wanted /= <<>> THEN wanted ELSE DEFAULT_MODEL
                 /\ \A i \in 1..Len(n) : n[i] /= "/"
                 /\ n /= <<>> => (n[1] /= " " /\ n[Len(n)] /= " ")

C15_Witness ==
    \E t \in Tasks :
        /\ task[t].pc = "forwarded"
        /\ task[t].query = [k \in {"model"} |-> <<"a", " ", "/">>]
        /\ task[t].model = <<"a">>

\* C16: whatever refreshes race with it, once a pull has succeeded and
\* invalidated the cache, the first contains call that begins afterwards does
\* not answer from a set fetched before the pull finished: asked for a model
\* the backend holds by then, it does not go on to a second pull.
C16_NoSecondPull ==
    [][\A t \in Tasks :
          (/\ HasModelStarts(t)
           /\ trail.invalidated
           /\ task'[t].model \in upstream_models)
             => task'[t].pc /= "pull"]_vars

\* C17: pulls are not shared between requests: of two requests in flight for
\* the same model that both got the answer false from contains, each issues
\* its own pull, and each is forwarded only after its own pull returned success.
C17_EachPullsItsOwn ==
    \A t, u \in Tasks :
        LET r == task[t]
            o == task[u]
        IN  (/\ AUTO_PULL
             /\ t /= u
             /\ r.has = Some(FALSE)
             /\ o.has = Some(FALSE)
             /\ r.model = o.model)
                => /\ r.nPull = 1
                   /\ r.pulled = Some(r.model)
                   /\ r.outbound.sent => r.pullStatus = 200

C17_Witness ==
    /\ AUTO_PULL
    /\ \A t \in Tasks :
          /\ task[t].has = Some(FALSE)
          /\ task[t].model = DEFAULT_MODEL
          /\ task[t].nPull = 1
          /\ task[t].pullStatus = 200
    /\ task["t1"].pc = "forwarded"
    /\ task["t2"].pc = "pull_reply"

\* C18: with auto-pull enabled, for every request forwarded with a JSON object
\* as its body, the model ensure was called with (the one it looked up and, if
\* it pulled, pulled) is the model field of that object.
C18_EnsuredModelIsSent ==
    \A t \in Tasks :
        LET r == task[t]
        IN  (/\ AUTO_PULL
             /\ r.pc = "forwarded"
             /\ r.wire.form = "json"
             /\ IsDict(r.wire.value))
                => /\ r.wire.value.fields["model"] = r.model
                   /\ r.pulled /= None => r.pulled = Some(r.wire.value.fields["model"])

\* C19: no backend call is repeated: one proxied request issues at most one
\* /api/tags fetch, at most one /api/pull and at most one forwarded /v1 call;
\* and, every backend call being answered, a request that is being handled
\* ends with a response or a failure, whatever became of the other request.
C19_NoRetryAndFinishes ==
    /\ [](\A t \in Tasks :
            task[t].nTags <= 1 /\ task[t].nPull <= 1 /\ task[t].nFwd <= 1)
    /\ \A t \in Tasks :
          (task[t].pc \notin {"idle", "done", "failed"})
              ~> (task[t].pc \in {"done", "failed"})

C19_Witness ==
    /\ task["t1"].pc = "failed"
    /\ task["t1"].nTags = 1
    /\ task["t1"].nPull = 1
    /\ task["t2"].pc = "forwarded"
    /\ task["t2"].nTags = 1
    /\ task["t2"].nPull = 1
    /\ task["t2"].nFwd = 1

====
